---- MODULE Spec2Model ----
(***************************************************************************)
(* Model of src/app/app.py: the startup gate test_ollama_connection, the   *)
(* engine factory get_llm_engine, the prompt template chat_prompt, and the *)
(* ChatBot session (generate_ai_response, chat, clear_chat) as wired to    *)
(* the Gradio components by create_demo.                                   *)
(*                                                                         *)
(* Spec      : the gate, then the session with the dispatcher delivering   *)
(*             one user action at a time (each handler is one action).     *)
(* SpecOk    : Spec with a backend that constructs every engine and        *)
(*             answers every inference call.                               *)
(* SpecConc  : the session with the two chat listeners (msg.submit,        *)
(*             send_btn.click) each running in a worker and clear_chat     *)
(*             running unqueued; handlers advance statement by statement.  *)
(***************************************************************************)
EXTENDS Integers, Sequences, FiniteSets, TLC

\* ------------------------------------------------------------------ bounds
\* Longest transcript (stored or shown) from which a new chat is started.
MaxTurns == 4
\* The same, for a chat started while workers run concurrently.
MaxTurnsConc == 2

\* ------------------------------------------------------- program constants
\* test_ollama_connection(retries=3, delay=3)
DEFAULT_RETRIES == 3
DEFAULT_DELAY == 3
\* temperature=0.3, kept in tenths
TEMPERATURE_TENTHS == 3
\* exit(1)
EXIT_FAILURE == 1
\* exit status of a process that has not exited
NO_EXIT == 0 - 1

GREETING == "Hi! I'm DeepSeek. How can I help you code today?"
SYSTEM_TEMPLATE == "You are an expert AI coding assistant. ..."
NO_ANSWER == "Error: the model returned no answer."

\* choices of model_dropdown
ModelChoices == {"deepseek-r1:1.5b", "deepseek-r1:7b", "deepseek-r1:14b"}

\* ------------------------------------------------------- inputs (bounded)
\* what the user can submit from the textbox: empty, whitespace-only, text
Texts == {"", " ", "fix this loop"}
\* what the engine can answer when it answers
Responses == {"", "Use a for-loop"}
\* the outcome of one inference call: an exception, or a text
Replies == {[raises |-> TRUE, text |-> ""]}
             \cup {[raises |-> FALSE, text |-> r] : r \in Responses}

\* the value model_dropdown starts with
DefaultModel == "deepseek-r1:1.5b"
\* what is submitted while workers run concurrently
ConcTexts == {"", "fix this loop"}

\* ------------------------------------------------------------ data model
\* A turn held as a dict {"role": ..., "content": ...}
Dict(role, content) == [kind |-> "dict", role |-> role, content |-> content]
\* langchain message objects
HumanMessage(content) == [kind |-> "msg", role |-> "human", content |-> content]
AIMessage(content) == [kind |-> "msg", role |-> "ai", content |-> content]
SystemMessage(content) == [kind |-> "msg", role |-> "system", content |-> content]

\* The one-element seed transcript of __init__, clear_chat and gr.Chatbot(value=...)
Seed == <<Dict("ai", GREETING)>>

\* A Python value returned by a handler, tagged with its type
StrVal(s) == [kind |-> "str", str |-> s, list |-> <<>>]
ListVal(l) == [kind |-> "list", str |-> "", list |-> l]
\* no value (nothing was returned / nothing delivered yet)
NoVal == [kind |-> "none", str |-> "", list |-> <<>>]

\* The transcript the Chatbot component (type="messages") hands to a handler
\* as `history`: the messages of the value it holds; a str holds no message.
Echo(v) == IF v.kind = "list" THEN v.list ELSE <<>>

\* ------------------------------------------------------ get_llm_engine
None == [kind |-> "None", model |-> "", temperature |-> 0]

\* construct_ok: whether ChatOllama(...) constructs without raising
get_llm_engine(model_name, construct_ok) ==
    IF construct_ok
    THEN [kind |-> "ChatOllama", model |-> model_name,
          temperature |-> TEMPERATURE_TENTHS]
    ELSE None

\* ---------------------------------------------------------- chat_prompt
\* MessagesPlaceholder: a dict turn becomes the message of its role
ToMessage(t) ==
    IF t.kind = "msg" THEN t
    ELSE IF t.role \in {"user", "human"} THEN HumanMessage(t.content)
    ELSE IF t.role \in {"ai", "assistant"} THEN AIMessage(t.content)
    ELSE SystemMessage(t.content)

\* ("system", SYSTEM_TEMPLATE), MessagesPlaceholder("chat_history"), ("human", "{input}")
chat_prompt(input, history) ==
    <<SystemMessage(SYSTEM_TEMPLATE)>>
      \o [i \in 1..Len(history) |-> ToMessage(history[i])]
      \o <<HumanMessage(input)>>

\* ------------------------------------------------ ChatBot.generate_ai_response
\* (a generate_ai_response that does not store the response it returns)
generate_ai_response_without_ai_append(self_history, user_input, llm_engine, reply) ==
    LET h1 == Append(self_history, HumanMessage(user_input))
    IN  IF llm_engine = None
        THEN [raised |-> TRUE, chat_history |-> h1, invoked |-> FALSE,
              prompt |-> <<>>, response |-> ""]
        ELSE IF reply.raises
        THEN [raised |-> TRUE, chat_history |-> h1, invoked |-> TRUE,
              prompt |-> chat_prompt(user_input, h1), response |-> ""]
        ELSE [raised |-> FALSE, chat_history |-> h1, invoked |-> TRUE,
              prompt |-> chat_prompt(user_input, h1),
              response |-> IF reply.text = "" THEN NO_ANSWER ELSE reply.text]

\* (a generate_ai_response without the `or` substitute for an empty response)
generate_ai_response_without_substitute(self_history, user_input, llm_engine, reply) ==
    LET h1 == Append(self_history, HumanMessage(user_input))
    IN  IF llm_engine = None
        THEN [raised |-> TRUE, chat_history |-> h1, invoked |-> FALSE,
              prompt |-> <<>>, response |-> ""]
        ELSE IF reply.raises
        THEN [raised |-> TRUE, chat_history |-> h1, invoked |-> TRUE,
              prompt |-> chat_prompt(user_input, h1), response |-> ""]
        ELSE [raised |-> FALSE,
              chat_history |-> Append(h1, AIMessage(reply.text)),
              invoked |-> TRUE, prompt |-> chat_prompt(user_input, h1),
              response |-> reply.text]

\* self_history: self.chat_history on entry; reply: the outcome of chain.invoke.
\* The result carries self.chat_history on exit, whether an exception left the
\* method, the prompt sent to the engine (if it was invoked) and the response.
generate_ai_response(self_history, user_input, llm_engine, reply) ==
    LET h1 == Append(self_history, HumanMessage(user_input))
    IN  IF llm_engine = None
        THEN \* chat_prompt | None raises TypeError: no chain, nothing invoked
             [raised |-> TRUE, chat_history |-> h1, invoked |-> FALSE,
              prompt |-> <<>>, response |-> ""]
        ELSE LET prompt == chat_prompt(user_input, h1)
             IN  IF reply.raises
                 THEN [raised |-> TRUE, chat_history |-> h1, invoked |-> TRUE,
                       prompt |-> prompt, response |-> ""]
                 ELSE LET response == IF reply.text = "" THEN NO_ANSWER
                                      ELSE reply.text
                      IN  [raised |-> FALSE,
                           chat_history |-> Append(h1, AIMessage(response)),
                           invoked |-> TRUE, prompt |-> prompt,
                           response |-> response]

\* ------------------------------------------------------------ ChatBot.chat
\* (a chat that forgets to append the user turn to `history`)
chat_drops_user_turn(self_history, message, model_choice, history, construct_ok, reply) ==
    IF message = ""
    THEN [raised |-> FALSE, ret1 |-> StrVal(""), ret2 |-> ListVal(history),
          chat_history |-> self_history, factory_called |-> FALSE,
          llm_engine |-> None, invoked |-> FALSE, prompt |-> <<>>]
    ELSE LET llm_engine == get_llm_engine(model_choice, construct_ok)
             g == generate_ai_response(self_history, message, llm_engine, reply)
         IN  [raised |-> g.raised,
              ret1 |-> IF g.raised THEN NoVal
                       ELSE ListVal(Append(history, Dict("ai", g.response))),
              ret2 |-> IF g.raised THEN NoVal ELSE StrVal(""),
              chat_history |-> g.chat_history, factory_called |-> TRUE,
              llm_engine |-> llm_engine, invoked |-> g.invoked,
              prompt |-> g.prompt]

\* (a chat without the empty-message guard)
chat_without_guard(self_history, message, model_choice, history, construct_ok, reply) ==
    LET llm_engine == get_llm_engine(model_choice, construct_ok)
        h1 == Append(history, Dict("user", message))
        g == generate_ai_response(self_history, message, llm_engine, reply)
    IN  [raised |-> g.raised,
         ret1 |-> IF g.raised THEN NoVal
                  ELSE ListVal(Append(h1, Dict("ai", g.response))),
         ret2 |-> IF g.raised THEN NoVal ELSE StrVal(""),
         chat_history |-> g.chat_history, factory_called |-> TRUE,
         llm_engine |-> llm_engine, invoked |-> g.invoked,
         prompt |-> g.prompt]

\* The result of one call: the pair returned (ret1, ret2), or raised; and the
\* effects: self.chat_history on exit, whether get_llm_engine was called,
\* the engine obtained, whether it was invoked and with which prompt.
chat(self_history, message, model_choice, history, construct_ok, reply) ==
    IF message = ""
    THEN [raised |-> FALSE, ret1 |-> StrVal(""), ret2 |-> ListVal(history),
          chat_history |-> self_history, factory_called |-> FALSE,
          llm_engine |-> None, invoked |-> FALSE, prompt |-> <<>>]
    ELSE LET llm_engine == get_llm_engine(model_choice, construct_ok)
             h1 == Append(history, Dict("user", message))
             g == generate_ai_response(self_history, message, llm_engine, reply)
         IN  IF g.raised
             THEN [raised |-> TRUE, ret1 |-> NoVal, ret2 |-> NoVal,
                   chat_history |-> g.chat_history, factory_called |-> TRUE,
                   llm_engine |-> llm_engine, invoked |-> g.invoked,
                   prompt |-> g.prompt]
             ELSE [raised |-> FALSE,
                   ret1 |-> ListVal(Append(h1, Dict("ai", g.response))),
                   ret2 |-> StrVal(""),
                   chat_history |-> g.chat_history, factory_called |-> TRUE,
                   llm_engine |-> llm_engine, invoked |-> g.invoked,
                   prompt |-> g.prompt]

\* ------------------------------------------------------ ChatBot.clear_chat
\* (a clear_chat that returns the seed but leaves self.chat_history as it was)
clear_chat_keeps_history(self_history) ==
    [raised |-> FALSE, ret1 |-> StrVal(""), ret2 |-> ListVal(Seed),
     chat_history |-> self_history]

clear_chat(self_history) ==
    [raised |-> FALSE, ret1 |-> StrVal(""), ret2 |-> ListVal(Seed),
     chat_history |-> Seed]

\* ------------------------------------------------- test_ollama_connection
\* (a loop body that logs a healthy probe and goes on instead of returning)
loop_body_without_return(healthy, delay) ==
    [returned |-> FALSE, sleeps |-> IF healthy THEN 0 ELSE 1,
     slept |-> IF healthy THEN 0 ELSE delay]

\* One iteration of `for i in range(retries)`: a healthy probe returns True;
\* an unhealthy one is logged and followed by time.sleep(delay).
loop_body(healthy, delay) ==
    IF healthy
    THEN [returned |-> TRUE, sleeps |-> 0, slept |-> 0]
    ELSE [returned |-> FALSE, sleeps |-> 1, slept |-> delay]

\* ---------------------------------------------------- module-level gate check
\* if not test_ollama_connection(): exit(1)
\* (a gate check that goes on whatever the gate returned)
gate_check_never_exits(ok) == "loaded"

gate_check(ok) == IF ok THEN "loaded" ELSE "exited"

\* ------------------------------------------------------------------ state
VARIABLES
    phase,              \* "probing", "loaded", "exited", "serving"
    attempt,            \* iterations of the probe loop completed
    connected,          \* what test_ollama_connection returned, or "pending"
    sleeps,             \* calls of time.sleep(delay) made
    slept,              \* time spent in time.sleep so far
    probe_log,          \* the probes issued so far: TRUE for a healthy one
    exit_code,          \* exit status, NO_EXIT while running
    chat_history,       \* self.chat_history
    chatbot_component,  \* the value the gr.Chatbot component received last
    msg,                \* the value the gr.Textbox component received last
    call,               \* the last handler call: its inputs, effects, result
    prev_op,            \* the handler called before the last one
    prev_ret,           \* and the transcript it returned
    fresh,              \* turns appended to self.chat_history since the last
                        \* (re)initialisation of it
    pc,                 \* per chat listener: the statement its worker is at
    loc                 \* per chat listener: the locals of its running call

vars == <<phase, attempt, connected, sleeps, slept, probe_log, exit_code, chat_history, chatbot_component,
          msg, call, prev_op, prev_ret, fresh, pc, loc>>

\* the two event listeners that run chatbot.chat
Listeners == {"submit", "click"}

NoLocals ==
    [message |-> "", model_choice |-> "", history |-> <<>>, llm_engine |-> None,
     prompt |-> <<>>, response |-> "", stale |-> FALSE]

NoCall ==
    [op |-> "none", message |-> "", model_choice |-> "", history |-> <<>>,
     construct_ok |-> TRUE, reply |-> [raises |-> FALSE, text |-> ""],
     self_before |-> <<>>,
     raised |-> FALSE, ret1 |-> NoVal, ret2 |-> NoVal,
     factory_called |-> FALSE, llm_engine |-> None, invoked |-> FALSE,
     prompt |-> <<>>]

Init ==
    /\ phase = "probing"
    /\ attempt = 0
    /\ connected = "pending"
    /\ sleeps = 0
    /\ slept = 0
    /\ probe_log = <<>>
    /\ exit_code = NO_EXIT
    /\ chat_history = <<>>
    /\ chatbot_component = NoVal
    /\ msg = NoVal
    /\ call = NoCall
    /\ prev_op = "none"
    /\ prev_ret = NoVal
    /\ fresh = <<>>
    /\ pc = [w \in Listeners |-> "idle"]
    /\ loc = [w \in Listeners |-> NoLocals]

session == <<chat_history, chatbot_component, msg, call, prev_op, prev_ret, fresh>>
workers == <<pc, loc>>
startup == <<phase, attempt, connected, sleeps, slept, probe_log, exit_code>>

\* ------------------------------------------- test_ollama_connection, run
\* One iteration of the loop, its probe healthy or not.
Probe(healthy) ==
    /\ phase = "probing"
    /\ attempt < DEFAULT_RETRIES
    /\ LET r == loop_body(healthy, DEFAULT_DELAY)
       IN  /\ probe_log' = Append(probe_log, healthy)
           /\ sleeps' = sleeps + r.sleeps
           /\ slept' = slept + r.slept
           /\ IF r.returned
              THEN /\ connected' = "True"
                   /\ phase' = gate_check(TRUE)
                   /\ UNCHANGED attempt
              ELSE /\ attempt' = attempt + 1
                   /\ UNCHANGED <<phase, connected>>
    /\ UNCHANGED <<exit_code, session, workers>>

\* One iteration whose probe is healthy: return True; the module goes on.
ProbeOk == Probe(TRUE)

\* One iteration whose probe fails: log, time.sleep(delay), next iteration.
ProbeFail == Probe(FALSE)

\* The loop is exhausted: return False, and the module-level check exits.
GateFail ==
    /\ phase = "probing"
    /\ attempt = DEFAULT_RETRIES
    /\ connected' = "False"
    /\ phase' = gate_check(FALSE)
    /\ exit_code' = IF phase' = "exited" THEN EXIT_FAILURE ELSE exit_code
    /\ UNCHANGED <<attempt, sleeps, slept, probe_log, session, workers>>

\* __main__: create_demo() builds the ChatBot and the components; launch().
Launch ==
    /\ phase = "loaded"
    /\ phase' = "serving"
    /\ chat_history' = Seed
    /\ chatbot_component' = ListVal(Seed)
    /\ msg' = StrVal("")
    /\ UNCHANGED <<attempt, connected, sleeps, slept, probe_log, exit_code, call,
                   prev_op, prev_ret, fresh, workers>>

\* ------------------------------------------- handlers, one action at a time
\* msg.submit / send_btn.click: fn=chatbot.chat,
\* inputs=[msg, model_dropdown, chatbot_component], outputs=[chatbot_component, msg]
\* The backend decides construct_ok and reply, within the sets given.
ChatWith(construct_oks, replies) ==
    /\ phase = "serving"
    /\ Len(chat_history) < MaxTurns
    /\ Len(Echo(chatbot_component)) < MaxTurns
    /\ \E message \in Texts, model_choice \in ModelChoices,
          construct_ok \in construct_oks, reply \in replies :
          LET history == Echo(chatbot_component)
              r == chat(chat_history, message, model_choice, history,
                        construct_ok, reply)
          IN  /\ call' = [op |-> "chat", message |-> message,
                          model_choice |-> model_choice, history |-> history,
                          construct_ok |-> construct_ok, reply |-> reply,
                          self_before |-> chat_history,
                          raised |-> r.raised, ret1 |-> r.ret1, ret2 |-> r.ret2,
                          factory_called |-> r.factory_called,
                          llm_engine |-> r.llm_engine, invoked |-> r.invoked,
                          prompt |-> r.prompt]
              /\ chat_history' = r.chat_history
              /\ fresh' = fresh \o SubSeq(r.chat_history, Len(chat_history) + 1,
                                          Len(r.chat_history))
              \* an exception reaches the dispatcher: no output is delivered
              /\ chatbot_component' = IF r.raised THEN chatbot_component ELSE r.ret1
              /\ msg' = IF r.raised THEN msg ELSE r.ret2
    /\ prev_op' = call.op
    /\ prev_ret' = IF call.ret2.kind = "list" THEN call.ret2 ELSE call.ret1
    /\ UNCHANGED <<startup, workers>>

\* a chat against a backend that may fail
Chat == ChatWith(BOOLEAN, Replies)

\* a chat against a backend that constructs the engine and answers
ChatOk == ChatWith({TRUE}, {r \in Replies : ~r.raises})

\* clear_btn.click: fn=chatbot.clear_chat, inputs=[], outputs=[msg, chatbot_component]
ClearChat ==
    /\ phase = "serving"
    /\ LET r == clear_chat(chat_history)
       IN  /\ call' = [NoCall EXCEPT !.op = "clear", !.self_before = chat_history,
                                     !.ret1 = r.ret1, !.ret2 = r.ret2]
           /\ chat_history' = r.chat_history
           /\ fresh' = <<>>
           /\ msg' = r.ret1
           /\ chatbot_component' = r.ret2
    /\ prev_op' = call.op
    /\ prev_ret' = IF call.ret2.kind = "list" THEN call.ret2 ELSE call.ret1
    /\ UNCHANGED <<startup, workers>>

Next == ProbeOk \/ ProbeFail \/ GateFail \/ Launch \/ Chat \/ ClearChat

Spec == Init /\ [][Next]_vars

\* The same program with a backend that never fails a chat: every chat
\* cycle is a successful one.
NextOk == ProbeOk \/ ProbeFail \/ GateFail \/ Launch \/ ChatOk \/ ClearChat

SpecOk == Init /\ [][NextOk]_vars

\* ------------------------------------- handlers, statement by statement
\* The session once launched, with a backend that constructs every engine
\* and answers every inference call: what is left is the scheduling.
InitConc ==
    /\ phase = "serving"
    /\ attempt = 0
    /\ connected = "True"
    /\ sleeps = 0
    /\ slept = 0
    /\ probe_log = <<TRUE>>
    /\ exit_code = NO_EXIT
    /\ chat_history = Seed
    /\ chatbot_component = ListVal(Seed)
    /\ msg = StrVal("")
    /\ call = NoCall
    /\ prev_op = "none"
    /\ prev_ret = NoVal
    /\ fresh = <<>>
    /\ pc = [w \in Listeners |-> "idle"]
    /\ loc = [w \in Listeners |-> NoLocals]

observed == <<call, prev_op, prev_ret, fresh>>

\* The listener's queue takes the event with the component values of that
\* moment. chat line 82: an empty message returns at once ("", history).
\* Otherwise lines 86-89: the engine is built, the user turn is appended to
\* the local `history`, and generate_ai_response is entered.
ChatStart(w) ==
    /\ pc[w] = "idle"
    /\ Len(chat_history) < MaxTurnsConc
    /\ Len(Echo(chatbot_component)) < MaxTurnsConc
    /\ \E message \in ConcTexts, model_choice \in {DefaultModel} :
          LET history == Echo(chatbot_component)
          IN  IF message = ""
              THEN /\ chatbot_component' = StrVal("")
                   /\ msg' = ListVal(history)
                   /\ UNCHANGED <<pc, loc>>
              ELSE /\ loc' = [loc EXCEPT ![w] =
                            [NoLocals EXCEPT
                               !.message = message,
                               !.model_choice = model_choice,
                               !.llm_engine = get_llm_engine(model_choice, TRUE),
                               !.history = Append(history, Dict("user", message))]]
                   /\ pc' = [pc EXCEPT ![w] = "load70"]
                   /\ UNCHANGED <<chatbot_component, msg>>
    /\ UNCHANGED <<startup, chat_history, observed>>

\* line 70 and line 75, first half: self.chat_history is evaluated; the
\* worker now holds the list object that is the stored transcript.
LoadHistory(w) ==
    /\ pc[w] \in {"load70", "load75"}
    /\ loc' = [loc EXCEPT ![w].stale = FALSE]
    /\ pc' = [pc EXCEPT ![w] = IF pc[w] = "load70" THEN "append70" ELSE "append75"]
    /\ UNCHANGED <<startup, session>>

\* line 70, second half: .append(HumanMessage(content=user_input)) on the
\* list held; it is the stored transcript unless clear_chat rebound it.
AppendHuman(w) ==
    /\ pc[w] = "append70"
    /\ chat_history' = IF loc[w].stale THEN chat_history
                       ELSE Append(chat_history, HumanMessage(loc[w].message))
    /\ pc' = [pc EXCEPT ![w] = "invoke73"]
    /\ UNCHANGED <<startup, chatbot_component, msg, observed, loc>>

\* lines 72-73: the chain is built and invoked on self.chat_history as it is now
Invoke(w) ==
    /\ pc[w] = "invoke73"
    /\ loc' = [loc EXCEPT ![w].prompt = chat_prompt(loc[w].message, chat_history)]
    /\ pc' = [pc EXCEPT ![w] = "await73"]
    /\ UNCHANGED <<startup, session>>

\* line 73: the engine answers; `or` substitutes the no-answer text
Respond(w) ==
    /\ pc[w] = "await73"
    /\ \E r \in Responses :
          loc' = [loc EXCEPT ![w].response = IF r = "" THEN NO_ANSWER ELSE r]
    /\ pc' = [pc EXCEPT ![w] = "load75"]
    /\ UNCHANGED <<startup, session>>

\* line 75, second half: .append(AIMessage(content=response))
AppendAI(w) ==
    /\ pc[w] = "append75"
    /\ chat_history' = IF loc[w].stale THEN chat_history
                       ELSE Append(chat_history, AIMessage(loc[w].response))
    /\ pc' = [pc EXCEPT ![w] = "return95"]
    /\ UNCHANGED <<startup, chatbot_component, msg, observed, loc>>

\* lines 95-97: the assistant turn is appended to `history`, (history, "")
\* is returned and delivered to outputs=[chatbot_component, msg]
ChatReturn(w) ==
    /\ pc[w] = "return95"
    /\ chatbot_component' =
           ListVal(Append(loc[w].history, Dict("ai", loc[w].response)))
    /\ msg' = StrVal("")
    /\ pc' = [pc EXCEPT ![w] = "idle"]
    /\ loc' = [loc EXCEPT ![w] = NoLocals]
    /\ UNCHANGED <<startup, chat_history, observed>>

\* clear_btn.click with queue=False: clear_chat runs at once, whatever the
\* chat workers are doing. self.chat_history is bound to a new list: the
\* list a worker holds is no longer the stored transcript.
ClearNow ==
    /\ LET r == clear_chat(chat_history)
       IN  /\ chat_history' = r.chat_history
           /\ msg' = r.ret1
           /\ chatbot_component' = r.ret2
    /\ loc' = [w \in Listeners |-> [loc[w] EXCEPT !.stale = TRUE]]
    /\ UNCHANGED <<startup, observed, pc>>

NextConc ==
    \/ \E w \in Listeners :
          \/ ChatStart(w)
          \/ LoadHistory(w)
          \/ AppendHuman(w)
          \/ Invoke(w)
          \/ Respond(w)
          \/ AppendAI(w)
          \/ ChatReturn(w)
    \/ ClearNow

SpecConc == InitConc /\ [][NextConc]_vars

\* ------------------------------------------------------------------ claims
\* texts that are empty or consist only of whitespace
BlankTexts == {"", " "}

\* a turn said by the user / by the assistant, as a dict or as a message
IsUserTurn(t) == t.role \in {"user", "human"}
IsAssistantTurn(t) == t.role \in {"ai", "assistant"}

\* the last call was a chat with a non-empty message and an engine that answered
AnsweredChat ==
    /\ call.op = "chat"
    /\ call.message # ""
    /\ call.invoked
    /\ ~call.reply.raises

\* C1 (as stated): a chat with a non-empty message whose engine returns a
\* response returns (T + user turn + assistant turn holding that response, "").
C1_LastTurnIsEngineResponse ==
    AnsweredChat =>
        /\ ~call.raised
        /\ call.ret1 = ListVal(call.history \o
                 <<Dict("user", call.message), Dict("ai", call.reply.text)>>)
        /\ call.ret2 = StrVal("")

\* C1 (amended): a chat with a non-empty message whose engine returns a
\* response returns a transcript of length len(T)+2 that starts with T,
\* continues with the user turn holding the message and ends with an assistant
\* turn holding the response, or the fixed no-answer text when the response is
\* empty; the second returned value is the empty string.
C1_ChatAppendsUserAndAssistant ==
    AnsweredChat =>
        LET T == call.history
            out == call.ret1.list
        IN  /\ ~call.raised
            /\ call.ret1.kind = "list"
            /\ Len(out) = Len(T) + 2
            /\ SubSeq(out, 1, Len(T)) = T
            /\ out[Len(T) + 1] = Dict("user", call.message)
            /\ IsAssistantTurn(out[Len(T) + 2])
            /\ out[Len(T) + 2].content =
                   (IF call.reply.text = "" THEN NO_ANSWER ELSE call.reply.text)
            /\ call.ret2 = StrVal("")

\* scenario 1: chat("fix this loop", m, seed) answered "Use a for-loop"
C1_Witness ==
    /\ AnsweredChat
    /\ call.history = Seed
    /\ call.message = "fix this loop"
    /\ call.ret1 = ListVal(<<Dict("ai", GREETING), Dict("user", "fix this loop"),
                             Dict("ai", "Use a for-loop")>>)

\* C2: when get_llm_engine returns None, a chat with a non-empty message still
\* returns, with a transcript of length len(T)+2 ending in an assistant turn
\* that carries a placeholder.
C2_NullEngineYieldsPlaceholder ==
    (call.op = "chat" /\ call.message # "" /\ call.factory_called
        /\ call.llm_engine = None) =>
        /\ ~call.raised
        /\ call.ret1.kind = "list"
        /\ Len(call.ret1.list) = Len(call.history) + 2
        /\ IsAssistantTurn(call.ret1.list[Len(call.ret1.list)])
        /\ call.ret1.list[Len(call.ret1.list)].content # ""

\* C3: when the engine invocation raises, chat does not raise: it returns a
\* transcript grown by two turns ending in an assistant turn with the
\* placeholder text.
C3_EngineErrorYieldsPlaceholder ==
    (call.op = "chat" /\ call.invoked /\ call.reply.raises) =>
        /\ ~call.raised
        /\ call.ret1.kind = "list"
        /\ Len(call.ret1.list) = Len(call.history) + 2
        /\ IsAssistantTurn(call.ret1.list[Len(call.ret1.list)])
        /\ call.ret1.list[Len(call.ret1.list)].content # ""

\* the last chat call did nothing: no factory call, no engine call, no turn
\* appended to self.chat_history, and the transcript passed in is in the pair
\* returned, as it was
ChatWasNoOp ==
    /\ ~call.raised
    /\ ~call.factory_called
    /\ ~call.invoked
    /\ chat_history = call.self_before
    /\ \E v \in {call.ret1, call.ret2} : v = ListVal(call.history)

\* C4 (as stated): a chat with an empty or whitespace-only message is a no-op.
C4_BlankMessageIsNoOp ==
    (call.op = "chat" /\ call.message \in BlankTexts) => ChatWasNoOp

\* C4 (amended): a chat with an empty (zero-length) message is a no-op: no
\* factory call, no engine call, no turn appended to the transcript passed in
\* or to self.chat_history, and the transcript passed in is handed back as it
\* was. (A whitespace-only message is handled like any other text.)
C4_EmptyMessageIsNoOp ==
    (call.op = "chat" /\ call.message = "") => ChatWasNoOp

\* an empty message sent when the transcript already holds a conversation
C4_Witness ==
    /\ call.op = "chat"
    /\ call.message = ""
    /\ Len(call.history) >= 3
    /\ Len(call.self_before) >= 3
    /\ ChatWasNoOp

\* C5: every return of chat is (transcript, "") in that order, so that the
\* transcript component receives a transcript and the input field the empty
\* string; for an empty message the pair is (T, "").
C5_ReturnsTranscriptThenClearedInput ==
    (call.op = "chat" /\ ~call.raised) =>
        /\ call.ret1.kind = "list"
        /\ call.ret2 = StrVal("")
        /\ chatbot_component.kind = "list"
        /\ msg = StrVal("")
        /\ (call.message = "" => call.ret1 = ListVal(call.history))

\* every user turn of h is directly followed by an assistant turn
Paired(h) ==
    \A i \in 1..Len(h) :
        IsUserTurn(h[i]) => (i < Len(h) /\ IsAssistantTurn(h[i + 1]))

\* C6: a chat whose engine construction or inference call failed leaves no
\* user turn in self.chat_history without its assistant turn, and the prompt
\* of a later chat holds no turn that has no answer.
C6_FailedChatLeavesNoOrphan ==
    /\ (call.op = "chat" /\ (call.llm_engine = None \/ call.reply.raises)
           /\ call.factory_called) => Paired(chat_history)
    /\ (call.op = "chat" /\ call.invoked) => Paired(call.self_before)

\* C7: the prompt sent for a chat is the system message, then the turns of
\* self.chat_history as it stood before the call, then one user message with
\* the new text.
C7_PromptIsSystemHistoryInput ==
    (call.op = "chat" /\ call.invoked) =>
        call.prompt = <<SystemMessage(SYSTEM_TEMPLATE)>>
                        \o [i \in 1..Len(call.self_before) |->
                               ToMessage(call.self_before[i])]
                        \o <<HumanMessage(call.message)>>

\* C8: clear_chat returns ("", seed transcript) whatever the state, leaves
\* self.chat_history equal to the seed, so that the history part of every
\* later prompt holds the seed and turns appended since the reset only; two
\* resets in a row return the same one-element transcript.
C8_ResetRestoresSeed ==
    /\ call.op = "clear" =>
          /\ call.ret1 = StrVal("")
          /\ call.ret2 = ListVal(Seed)
          /\ msg = StrVal("")
          /\ chatbot_component = ListVal(Seed)
          /\ chat_history = Seed
    /\ phase = "serving" => chat_history = Seed \o fresh
    /\ (call.op = "chat" /\ call.invoked) =>
          /\ Len(call.prompt) - 2 <= Len(Seed \o fresh)
          /\ \A i \in 2..(Len(call.prompt) - 1) :
                call.prompt[i] = ToMessage((Seed \o fresh)[i - 1])
    /\ (call.op = "clear" /\ prev_op = "clear") => prev_ret = call.ret2

\* a reset of a session that holds a conversation
C8_Witness ==
    /\ call.op = "clear"
    /\ Len(call.self_before) >= 3
    /\ chat_history = Seed

\* C10: the UI is launched and handlers run only after the gate returned
\* True; when it returned False the process has exited with a non-zero
\* status and nothing was launched or served.
C10_NoServingWithoutGate ==
    /\ phase \in {"loaded", "serving"} => connected = "True"
    /\ call.op # "none" => (phase = "serving" /\ connected = "True")
    /\ connected = "False" =>
          /\ phase = "exited"
          /\ exit_code # 0
          /\ exit_code = EXIT_FAILURE
          /\ chatbot_component = NoVal
          /\ chat_history = <<>>

\* all probes failed and the process is gone
C10_Witness ==
    /\ connected = "False"
    /\ attempt = DEFAULT_RETRIES
    /\ phase = "exited"

\* every user turn that has a successor is followed by a chat-appended
\* assistant turn, and every chat-appended assistant turn follows a user turn
PairsIntact(h) ==
    \A i \in 1..Len(h) :
        /\ (IsUserTurn(h[i]) /\ i < Len(h)) =>
               (h[i + 1].kind = "msg" /\ IsAssistantTurn(h[i + 1]))
        /\ (h[i].kind = "msg" /\ IsAssistantTurn(h[i])) =>
               (i > 1 /\ IsUserTurn(h[i - 1]))

\* C9: with chat run by workers and clear_chat unqueued, the mutations of
\* self.chat_history are serialized: no state is reached where a user turn is
\* followed by anything but its assistant turn, or where the response of a
\* chat started before a reset sits in the transcript of after the reset;
\* once no chat is running every user turn has its assistant turn.
C9_TranscriptMutationsSerialized ==
    /\ PairsIntact(chat_history)
    /\ (\A w \in Listeners : pc[w] = "idle") => Paired(chat_history)

\* all probes issued so far were unhealthy
AllUnhealthy == \A i \in 1..Len(probe_log) : ~probe_log[i]

\* C11: test_ollama_connection issues at most `retries` probes and then
\* ends; it returns True at the first healthy probe and issues no probe
\* after it; it returns False if and only if all `retries` probes were
\* unhealthy.
C11_GateReturnsAtFirstHealthyProbe ==
    /\ Len(probe_log) <= DEFAULT_RETRIES
    /\ \A i \in 1..Len(probe_log) : probe_log[i] => i = Len(probe_log)
    /\ connected = "True" <=> (Len(probe_log) >= 1 /\ probe_log[Len(probe_log)])
    /\ connected = "False" => (Len(probe_log) = DEFAULT_RETRIES /\ AllUnhealthy)
    /\ (Len(probe_log) = DEFAULT_RETRIES /\ AllUnhealthy) =>
           (connected = "False" \/ (connected = "pending" /\ ENABLED GateFail))
    /\ connected # "pending" => ~ENABLED Probe(TRUE) /\ ~ENABLED Probe(FALSE)

\* the gate returned True at its third probe, after two unhealthy ones
C11_Witness ==
    /\ connected = "True"
    /\ probe_log = <<FALSE, FALSE, TRUE>>

\* C14: the gate sleeps `delay` only between attempts: after a failed probe
\* exactly when another probe follows, so retries-1 times when all probes
\* fail, with no sleep after the final failed probe; every sleep lasts the
\* same `delay`.
C14_SleepsOnlyBetweenAttempts ==
    /\ slept = sleeps * DEFAULT_DELAY
    /\ connected = "True" => sleeps = Len(probe_log) - 1
    /\ (Len(probe_log) = DEFAULT_RETRIES /\ AllUnhealthy) =>
           sleeps = DEFAULT_RETRIES - 1

\* C12: once the session exists, self.chat_history and the value the
\* transcript component holds are transcripts that start with the seed
\* greeting: neither is ever empty.
C12_TranscriptNeverEmpty ==
    phase = "serving" =>
        /\ Len(chat_history) >= 1
        /\ chat_history[1] = Seed[1]
        /\ chatbot_component.kind = "list"
        /\ Len(chatbot_component.list) >= 1
        /\ chatbot_component.list[1] = Seed[1]

\* every user turn is directly followed by an assistant turn, and every
\* assistant turn but an opening one directly follows a user turn
Alternates(h) ==
    \A i \in 1..Len(h) :
        /\ IsUserTurn(h[i]) => (i < Len(h) /\ IsAssistantTurn(h[i + 1]))
        /\ (IsAssistantTurn(h[i]) /\ i > 1) => IsUserTurn(h[i - 1])

\* C13: after any sequence of resets and successful chat cycles run one at a
\* time, every user turn of the transcript (stored, and shown) is directly
\* followed by exactly one assistant turn, and no two user turns and no two
\* chat-appended assistant turns are adjacent.
C13_EveryUserTurnAnswered ==
    phase = "serving" =>
        /\ Alternates(chat_history)
        /\ PairsIntact(chat_history)
        /\ Alternates(Echo(chatbot_component))

\* two successful cycles in a row
C13_Witness ==
    /\ call.op = "chat"
    /\ ~call.raised
    /\ call.message # ""
    /\ Len(chat_history) >= 5
    /\ Len(Echo(chatbot_component)) >= 5

\* C15: whenever no chat is running, self.chat_history and the transcript
\* the UI echoes back have the same length and, turn by turn, the same role
\* and content.
C15_StoredEqualsShown ==
    phase = "serving" =>
        LET shown == Echo(chatbot_component)
        IN  /\ Len(chat_history) = Len(shown)
            /\ \A i \in 1..Len(shown) :
                  ToMessage(chat_history[i]) = ToMessage(shown[i])

\* C16: every assistant turn chat appends has non-empty content: an empty
\* engine response is replaced by the fixed no-answer text, and the turn
\* appended to self.chat_history and the turn appended to the returned
\* transcript hold the same content.
C16_AssistantTurnsNonEmpty ==
    /\ \A i \in 1..Len(chat_history) :
          IsAssistantTurn(chat_history[i]) => chat_history[i].content # ""
    /\ \A i \in 1..Len(Echo(chatbot_component)) :
          IsAssistantTurn(Echo(chatbot_component)[i]) =>
              Echo(chatbot_component)[i].content # ""
    /\ (call.op = "chat" /\ call.message # "" /\ ~call.raised) =>
          LET stored == chat_history[Len(chat_history)]
              out == call.ret1.list
          IN  /\ stored = AIMessage(stored.content)
              /\ call.ret1.kind = "list"
              /\ out[Len(out)] = Dict("ai", stored.content)
              /\ stored.content # ""
              /\ stored.content =
                    (IF call.reply.text = "" THEN NO_ANSWER ELSE call.reply.text)

\* the engine answered with the empty string
C16_Witness ==
    /\ call.op = "chat"
    /\ call.message # ""
    /\ ~call.raised
    /\ call.reply.text = ""
    /\ chat_history[Len(chat_history)] = AIMessage(NO_ANSWER)

====
